---- MODULE Spec2Model ----
(* The join-request lifecycle of the reading-group application:               *)
(*   - POST /api/groups/{groupId}/join-requests, the handler that creates a   *)
(*     join request and mails the group's admins                              *)
(*     (src/src/components/JoinRequestsManager.tsx, lines 130-222);           *)
(*   - PUT /api/groups/{groupId}/join-requests/{requestId}, the resolution of *)
(*     a request, which the client calls (lines 49-72) and whose server side  *)
(*     is described by spec.md section 4.1 only.                              *)
(*   - the JoinRequestsManager component (lines 23-118), the admin's list of  *)
(*     pending requests: fetchRequests and handleRequestAction;               *)
(*   - the LibraryPage component (src/unnamed/part_000, lines 132-491): the   *)
(*     filters, fetchBooks and the delete, archive and status handlers.       *)
(* Every `await` on the store is one atomic step of a call; calls interleave  *)
(* between their steps. A fetch of a component is sent, served by the server  *)
(* and delivered to the component in three steps.                             *)
EXTENDS Integers, Sequences, FiniteSets, TLC

\* ---------------------------------------------------------------- bounds
\* Number of POST calls a behaviour may make.
MaxCalls == 2

\* Number of join requests the group has when the admin opens the list.
MaxRequests == 3

\* Number of times the effect of JoinRequestsManager runs fetchRequests.
MaxFetches == 2

\* Number of times the admin presses Accepter or Refuser.
MaxClicks == 1

\* Number of fetchBooks calls of LibraryPage.
MaxBookFetches == 3

\* Number of delete, archive or status handler calls of LibraryPage.
MaxHandlers == 1

\* ---------------------------------------------------------------- data
Calls == 1..MaxCalls
Fetches == 1..MaxFetches
Clicks == 1..MaxClicks
BookFetches == 1..MaxBookFetches
Handlers == 1..MaxHandlers

\* The groups that exist in the store; "g0" is the id of no group, and a caller
\* may send an empty id.
Groups == {"g1"}
NoGroupId == ""

\* Users. a1, a2, a3 administer g1 (a3 has no email); u1 is an outsider.
NoUser == "anonymous"
Users == {"a1", "u1"}

\* The (session user, groupId) pairs a POST is made with: every early return of
\* the handler has an input that takes it.
StartInputs ==
    {<<NoUser, "g1">>, <<"u1", NoGroupId>>, <<"u1", "g0">>,
     <<"u1", "g1">>, <<"a1", "g1">>}

NoEmail == "null"
Email(u) == IF u = "a3" THEN NoEmail ELSE u

\* The ADMIN memberships of the groups, in the order the store returns them.
InitialAdmins(g) == IF g = "g1" THEN <<"a1", "a3", "a2">> ELSE <<>>

Range(s) == {s[i] : i \in 1..Len(s)}

NULL == [id |-> 0]

VARIABLES
    members,      \* GroupMember rows: [group_id, user_id, role]
    rows,         \* GroupJoinRequest rows: [id, groupId, userId, status]
    nextId,       \* the next fresh GroupJoinRequest id
    call,         \* per POST call: its position, parameters, locals and response
    hist,         \* per POST call: what the store held when it started, and
                  \* whether a resolve has written its (group, user) since
    put,          \* the last PUT (resolve): the request it named and its response
    requests,     \* JoinRequestsManager: the displayed requests, by id
    loading,      \* JoinRequestsManager: the loading flag
    gets,         \* per fetchRequests call: its position and its response
    puts,         \* per handleRequestAction call: its position, its request and its response
    books,        \* LibraryPage: the response the displayed books came with
    booksLoading, \* LibraryPage: the loading flag
    error,        \* LibraryPage: the error message, or NoError
    filterStatus, \* LibraryPage: the selected reading status
    filterArchiveStatus, \* LibraryPage: the selected archive status
    bookGets,     \* per fetchBooks call: its position, its query and its response
    handlers,     \* per delete, archive or status handler call: its position, the
                  \* filters its closure holds and its response
    revision      \* the library on the server: how many changes it has taken

serverVars == <<members, rows, nextId, call, hist, put>>
managerVars == <<requests, loading, gets, puts>>
libraryVars == <<books, booksLoading, error, filterStatus, filterArchiveStatus,
                 bookGets, handlers, revision>>
vars == <<members, rows, nextId, call, hist, put, requests, loading, gets, puts,
          books, booksLoading, error, filterStatus, filterArchiveStatus,
          bookGets, handlers, revision>>

\* ---------------------------------------------------------------- store reads
\* prisma.groupMember.findUnique({ where: { group_id_user_id } })
FindMembership(ms, g, u) ==
    IF \E m \in ms : m.group_id = g /\ m.user_id = u
    THEN CHOOSE m \in ms : m.group_id = g /\ m.user_id = u
    ELSE NULL

RowsOf(rs, g, u) == {r \in rs : r.groupId = g /\ r.userId = u}

\* prisma.groupJoinRequest.findUnique({ where: { groupId_userId } })
FindRequest(rs, g, u) ==
    IF RowsOf(rs, g, u) # {}
    THEN CHOOSE r \in RowsOf(rs, g, u) : \A q \in RowsOf(rs, g, u) : r.id <= q.id
    ELSE NULL

\* prisma.group.findUnique({ where: { id }, include: { members: { where: ADMIN } } })
AdminsOfGroup(ms, g) ==
    SelectSeq(InitialAdmins(g),
              LAMBDA a : \E m \in ms : m.group_id = g /\ m.user_id = a /\ m.role = "ADMIN")

StatusOf(rs, g, u) ==
    IF FindRequest(rs, g, u) = NULL THEN "NONE" ELSE FindRequest(rs, g, u).status

\* ---------------------------------------------------------------- POST: decisions
\* if (!session?.user?.id)
Unauthorized(u) == u = NoUser

\* if (!groupId)
MissingGroupId(g) == g = NoGroupId

\* if (!group)
GroupNotFound(g) == g \notin Groups

\* A membership check that rejects admins only.
AlreadyMemberAdminOnly(existingMembership) ==
    existingMembership # NULL /\ existingMembership.role = "ADMIN"

\* if (existingMembership)
AlreadyMember(existingMembership) == existingMembership # NULL

\* A pending check that is never taken.
AlreadyRequestedNever(existingRequest) == FALSE

\* if (existingRequest && existingRequest.status === 'PENDING')
AlreadyRequested(existingRequest) ==
    existingRequest # NULL /\ existingRequest.status = "PENDING"

\* An upsert that inserts a row whether or not the key has one.
UpsertAsInsert(rs, nid, g, u) ==
    [rows |-> rs \cup {[id |-> nid, groupId |-> g, userId |-> u, status |-> "PENDING"]},
     nextId |-> nid + 1]

\* An upsert that replaces the key's row by a row with a fresh id.
UpsertAsReplace(rs, nid, g, u) ==
    [rows |-> (rs \ RowsOf(rs, g, u))
              \cup {[id |-> nid, groupId |-> g, userId |-> u, status |-> "PENDING"]},
     nextId |-> nid + 1]

\* prisma.groupJoinRequest.upsert({ where: { groupId_userId }, update: { status:
\* 'PENDING' }, create: { groupId, userId, status: 'PENDING' } }): the row of the
\* unique key (groupId, userId) is updated in place, or a row with a fresh id is
\* inserted when the key has none.
Upsert(rs, nid, g, u) ==
    IF RowsOf(rs, g, u) # {}
    THEN [rows |-> {IF r \in RowsOf(rs, g, u) THEN [r EXCEPT !.status = "PENDING"] ELSE r
                    : r \in rs},
          nextId |-> nid]
    ELSE [rows |-> rs \cup {[id |-> nid, groupId |-> g, userId |-> u, status |-> "PENDING"]},
          nextId |-> nid + 1]

\* A notification loop that a failure ends.
RECURSIVE AttemptedUntilFailure(_, _)
AttemptedUntilFailure(admins, failing) ==
    IF admins = <<>> THEN <<>>
    ELSE LET admin == Head(admins) IN
         IF Email(admin) = NoEmail
         THEN AttemptedUntilFailure(Tail(admins), failing)
         ELSE IF admin \in failing
         THEN <<admin>>
         ELSE <<admin>> \o AttemptedUntilFailure(Tail(admins), failing)

\* for (const admin of admins) { if (admin.user.email) { try { render; send }
\* catch { continue } } }: the admins a notification is attempted for, in order,
\* when rendering or sending throws for the admins in `failing`.
RECURSIVE Attempted(_, _)
Attempted(admins, failing) ==
    IF admins = <<>> THEN <<>>
    ELSE LET admin == Head(admins) IN
         IF Email(admin) = NoEmail
         THEN Attempted(Tail(admins), failing)
         ELSE <<admin>> \o Attempted(Tail(admins), failing)

\* A handler whose outer catch sees the notification failures.
NotifyStatusUncaught(failed) == IF failed = {} THEN 201 ELSE 500

\* The status the handler returns after the notification loop: the loop's catch
\* swallows every failure, so the handler reaches its 201.
NotifyStatus(failed) == 201

\* ---------------------------------------------------------------- POST: state
IdleCall ==
    [pc |-> "idle", user |-> NoUser, groupId |-> NoGroupId, admins |-> <<>>,
     attempted |-> <<>>, failed |-> {}, status |-> 0, message |-> ""]

NoPut == [groupId |-> NoGroupId, requestId |-> 0, status |-> 0]

IdleHist ==
    [startStatus |-> "NONE", startId |-> 0, startMember |-> FALSE,
     alone |-> FALSE, resolved |-> FALSE, wrote |-> FALSE]

InFlight(c) == call[c].pc \notin {"idle", "done"}

Respond(c, st, msg) ==
    call' = [call EXCEPT ![c].pc = "done", ![c].status = st, ![c].message = msg]

\* The calls made for (g, u) have their join request written by a resolve.
Resolved(g, u) ==
    [c \in Calls |->
        IF call[c].pc # "idle" /\ call[c].groupId = g /\ call[c].user = u
        THEN [hist[c] EXCEPT !.resolved = TRUE]
        ELSE hist[c]]

\* The ADMIN memberships every behaviour starts with.
AdminMemberships ==
    {[group_id |-> g, user_id |-> a, role |-> "ADMIN"]
     : <<g, a>> \in {<<h, b>> \in Groups \X {"a1", "a2", "a3"} : b \in Range(InitialAdmins(h))}}

\* The stores a behaviour starts from: u1 has not asked to join g1 yet, or has a
\* request that create and resolve have already brought to PENDING, DECLINED or
\* ACCEPTED (with the membership the accept made).
InitialStores ==
    {[rows |-> {}, members |-> AdminMemberships, nextId |-> 1]}
    \cup {[rows |-> {[id |-> 1, groupId |-> "g1", userId |-> "u1", status |-> st]},
            members |-> AdminMemberships \cup
                        (IF st = "ACCEPTED"
                         THEN {[group_id |-> "g1", user_id |-> "u1", role |-> "MEMBER"]}
                         ELSE {}),
            nextId |-> 2]
           : st \in {"PENDING", "DECLINED", "ACCEPTED"}}

\* JoinRequestsManager as mounted: useState([]), useState(true), no fetch made.
IdleGet == [pc |-> "idle", ok |-> FALSE, data |-> <<>>]
IdlePut == [pc |-> "idle", requestId |-> 0, action |-> "", ok |-> FALSE]

ManagerMounted ==
    /\ requests = <<>>
    /\ loading = TRUE
    /\ gets = [f \in Fetches |-> IdleGet]
    /\ puts = [p \in Clicks |-> IdlePut]

\* READING_STATUSES and ARCHIVE_STATUSES, by name.
ReadingStatuses == {"all", "to_read", "reading", "finished"}
ArchiveStatuses == {"all", "non_archived", "archived"}

\* ARCHIVE_STATUSES.find(s => s.name === name)?.queryValue
QueryValue(name) ==
    CASE name = "non_archived" -> "false"
      [] name = "archived" -> "true"
      [] OTHER -> "undefined"

\* The query of the url fetchBooks builds: status is left out for 'all',
\* archived is left out for undefined.
NoParam == ""
Url(statusFilter, archivedFilter) ==
    [status |-> IF statusFilter # "" /\ statusFilter # "all" THEN statusFilter ELSE NoParam,
     archived |-> IF archivedFilter # "undefined" THEN archivedFilter ELSE NoParam]

\* LibraryPage as mounted with a signed-in user: useState([]), useState(true),
\* useState(null), both filters 'all', no fetch made.
NoError == "null"
NoUrl == [status |-> "none", archived |-> "none"]
NoBooks == [url |-> NoUrl, revision |-> 0]
IdleBookGet == [pc |-> "idle", url |-> NoUrl, ok |-> FALSE, data |-> NoBooks]
IdleHandler == [pc |-> "idle", handler |-> "", filterStatus |-> "", filterArchiveStatus |-> "",
                ok |-> FALSE]

LibraryMounted ==
    /\ books = NoBooks
    /\ booksLoading = TRUE
    /\ error = NoError
    /\ filterStatus = "all"
    /\ filterArchiveStatus = "all"
    /\ bookGets = [f \in BookFetches |-> IdleBookGet]
    /\ handlers = [h \in Handlers |-> IdleHandler]
    /\ revision = 0

Init ==
    /\ ManagerMounted
    /\ LibraryMounted
    /\ \E store \in InitialStores :
         /\ members = store.members
         /\ rows = store.rows
         /\ nextId = store.nextId
    /\ call = [c \in Calls |-> IdleCall]
    /\ hist = [c \in Calls |-> IdleHist]
    /\ put = NoPut

\* ---------------------------------------------------------------- POST: steps
\* Lines 130-141: the session and the groupId parameter.
Start(c, u, g) ==
    /\ call[c].pc = "idle"
    /\ \A d \in Calls : d < c => call[d].pc # "idle"
    /\ call' = [call EXCEPT ![c] =
            [IdleCall EXCEPT
               !.user = u, !.groupId = g,
               !.pc = IF Unauthorized(u) \/ MissingGroupId(g) THEN "done" ELSE "findGroup",
               !.status = IF Unauthorized(u) THEN 401 ELSE IF MissingGroupId(g) THEN 400 ELSE 0,
               !.message = IF Unauthorized(u) THEN "Unauthorized"
                           ELSE IF MissingGroupId(g) THEN "Group ID is required." ELSE ""]]
    /\ hist' = [hist EXCEPT ![c] =
            [IdleHist EXCEPT
               !.startStatus = StatusOf(rows, g, u),
               !.startId = FindRequest(rows, g, u).id,
               !.startMember = FindMembership(members, g, u) # NULL,
               !.alone = \A d \in Calls : ~InFlight(d)]]
    /\ UNCHANGED <<members, rows, nextId, put>>

\* Lines 145-157.
FindGroupStep(c) ==
    /\ call[c].pc = "findGroup"
    /\ IF GroupNotFound(call[c].groupId)
       THEN Respond(c, 404, "Group not found.")
       ELSE call' = [call EXCEPT ![c].pc = "findMembership",
                                 ![c].admins = AdminsOfGroup(members, call[c].groupId)]
    /\ UNCHANGED <<members, rows, nextId, hist, put>>

\* Lines 160-166.
FindMembershipStep(c) ==
    /\ call[c].pc = "findMembership"
    /\ LET existingMembership == FindMembership(members, call[c].groupId, call[c].user) IN
       IF AlreadyMember(existingMembership)
       THEN Respond(c, 400, "You are already a member of this group.")
       ELSE call' = [call EXCEPT ![c].pc = "findRequest"]
    /\ UNCHANGED <<members, rows, nextId, hist, put>>

\* Lines 169-175.
FindRequestStep(c) ==
    /\ call[c].pc = "findRequest"
    /\ LET existingRequest == FindRequest(rows, call[c].groupId, call[c].user) IN
       IF AlreadyRequested(existingRequest)
       THEN Respond(c, 400, "You have already requested to join this group.")
       ELSE call' = [call EXCEPT ![c].pc = "upsert"]
    /\ UNCHANGED <<members, rows, nextId, hist, put>>

\* Lines 178-186.
UpsertStep(c) ==
    /\ call[c].pc = "upsert"
    /\ LET g == call[c].groupId
           u == call[c].user
           up == Upsert(rows, nextId, g, u) IN
       /\ rows' = up.rows
       /\ nextId' = up.nextId
       /\ hist' = [hist EXCEPT ![c].wrote = TRUE]
    /\ call' = [call EXCEPT ![c].pc = "notify"]
    /\ UNCHANGED <<members, put>>

\* Lines 189-216: the notification loop and the response; rendering or sending
\* throws for the admins in `failing`.
NotifyStep(c) ==
    /\ call[c].pc = "notify"
    /\ \E failing \in SUBSET Range(call[c].admins) :
         LET attempted == Attempted(call[c].admins, failing)
             failed == failing \cap Range(attempted) IN
         call' = [call EXCEPT ![c].pc = "done",
                              ![c].attempted = attempted,
                              ![c].failed = failed,
                              ![c].status = NotifyStatus(failed),
                              ![c].message = IF NotifyStatus(failed) = 201
                                             THEN "Join request sent successfully."
                                             ELSE "An internal error occurred."]
    /\ UNCHANGED <<members, rows, nextId, hist, put>>

\* Lines 218-221: a store call of the try block throws; it has written nothing.
StoreThrows(c) ==
    /\ call[c].pc \in {"findGroup", "findMembership", "findRequest", "upsert"}
    /\ Respond(c, 500, "An internal error occurred.")
    /\ UNCHANGED <<members, rows, nextId, hist, put>>

\* ---------------------------------------------------------------- PUT: resolve
\* The request the PUT names, when it can be resolved: the row with that id in
\* that group, if its status is PENDING.
Resolvable(rs, g, r) ==
    {q \in rs : q.id = r /\ q.groupId = g /\ q.status = "PENDING"}

\* A resolve that answers for any request with that id in that group.
ResolveStatusAnyStatus(rs, ms, g, r, action) ==
    IF {q \in rs : q.id = r /\ q.groupId = g} = {} THEN 404 ELSE 200

\* The response: NotFound when there is no such PENDING request; an accept whose
\* Membership row cannot be created (the pair has one) fails as a whole.
ResolveStatus(rs, ms, g, r, action) ==
    IF Resolvable(rs, g, r) = {} THEN 404
    ELSE IF action = "accept" /\ \E q \in Resolvable(rs, g, r) :
                                    FindMembership(ms, g, q.userId) # NULL
    THEN 500
    ELSE 200

\* The join requests after a resolve that succeeds.
ResolveRows(rs, g, r, action) ==
    {IF q \in Resolvable(rs, g, r)
     THEN [q EXCEPT !.status = IF action = "accept" THEN "ACCEPTED" ELSE "DECLINED"]
     ELSE q : q \in rs}

\* An accept that creates no membership.
ResolveMembersNone(rs, ms, g, r, action) == ms

\* The memberships after a resolve that succeeds: an accept adds the requester
\* with role MEMBER, in the same transaction.
ResolveMembers(rs, ms, g, r, action) ==
    IF action = "accept"
    THEN ms \cup {[group_id |-> g, user_id |-> q.userId, role |-> "MEMBER"]
                  : q \in Resolvable(rs, g, r)}
    ELSE ms

\* resolve(groupId, requestId, action), one transaction on the store.
Resolve(g, r, action) ==
    /\ put' = [groupId |-> g, requestId |-> r,
               status |-> ResolveStatus(rows, members, g, r, action)]
    /\ IF ResolveStatus(rows, members, g, r, action) = 200
       THEN /\ rows' = ResolveRows(rows, g, r, action)
            /\ members' = ResolveMembers(rows, members, g, r, action)
            /\ hist' = LET q == CHOOSE x \in Resolvable(rows, g, r) : TRUE
                       IN Resolved(g, q.userId)
       ELSE UNCHANGED <<members, rows, hist>>
    /\ UNCHANGED <<nextId, call>>

\* ---------------------------------------------------------------- GET: list
\* list(groupId): the PENDING requests of the group, here by ascending id.
RECURSIVE AscendingIds(_)
AscendingIds(ids) ==
    IF ids = {} THEN <<>>
    ELSE LET least == CHOOSE i \in ids : \A j \in ids : i <= j
         IN <<least>> \o AscendingIds(ids \ {least})

PendingList(rs, g) == AscendingIds({q.id : q \in {x \in rs : x.groupId = g /\ x.status = "PENDING"}})

\* ---------------------------------------------------------------- JoinRequestsManager
\* The group whose requests the component shows (its groupId prop).
ShownGroup == "g1"

\* The users who asked to join the shown group, in the order they asked.
Requesters == <<"r1", "r2", "r3", "r4", "r5">>

\* The store when the admin opens the list: MaxRequests users have a PENDING
\* request for the group.
ManagerStore ==
    [rows |-> {[id |-> i, groupId |-> ShownGroup, userId |-> Requesters[i], status |-> "PENDING"]
               : i \in 1..MaxRequests},
     members |-> AdminMemberships,
     nextId |-> MaxRequests + 1]

ManagerInit ==
    /\ ManagerMounted
    /\ LibraryMounted
    /\ members = ManagerStore.members
    /\ rows = ManagerStore.rows
    /\ nextId = ManagerStore.nextId
    /\ call = [c \in Calls |-> IdleCall]
    /\ hist = [c \in Calls |-> IdleHist]
    /\ put = NoPut

\* A list that drops its first entry, whatever was resolved.
WithoutFirst(prev, requestId) == IF prev = <<>> THEN prev ELSE Tail(prev)

\* prev.filter(req => req.id !== requestId)
Without(prev, requestId) == SelectSeq(prev, LAMBDA req : req # requestId)

\* if (!response.ok) throw ...: the list is updated only after an OK response.
Removes(ok) == ok

\* Lines 28-31, run by the effect of lines 45-47 each time it fires (at mount,
\* again on a development double mount or when fetchRequests gets a new
\* identity): setLoading(true), the GET is sent.
FetchRequests(f) ==
    /\ gets[f].pc = "idle"
    /\ \A e \in Fetches : e < f => gets[e].pc # "idle"
    /\ loading' = TRUE
    /\ gets' = [gets EXCEPT ![f].pc = "sent"]
    /\ UNCHANGED <<requests, puts>>
    /\ UNCHANGED serverVars

\* The server answers the GET with the requests that are PENDING now, or with an
\* error.
ServeGet(f) ==
    /\ gets[f].pc = "sent"
    /\ \E ok \in BOOLEAN :
         gets' = [gets EXCEPT ![f].pc = "served", ![f].ok = ok,
                              ![f].data = IF ok THEN PendingList(rows, ShownGroup) ELSE <<>>]
    /\ UNCHANGED <<requests, loading, puts>>
    /\ UNCHANGED serverVars

\* Lines 32-42: the response is delivered; setRequests(data) if it is OK, a toast
\* otherwise, setLoading(false) in both cases.
FetchRequestsDone(f) ==
    /\ gets[f].pc = "served"
    /\ requests' = IF gets[f].ok THEN gets[f].data ELSE requests
    /\ loading' = FALSE
    /\ gets' = [gets EXCEPT ![f] = [IdleGet EXCEPT !.pc = "done"]]
    /\ UNCHANGED puts
    /\ UNCHANGED serverVars

\* Lines 49-57: a button of a displayed request is pressed (the list is rendered
\* only when loading is false, lines 74-76) and the PUT is sent.
HandleRequestAction(p, requestId, action) ==
    /\ puts[p].pc = "idle"
    /\ \A o \in Clicks : o < p => puts[o].pc # "idle"
    /\ ~loading
    /\ requestId \in Range(requests)
    /\ puts' = [puts EXCEPT ![p] = [pc |-> "sent", requestId |-> requestId,
                                    action |-> action, ok |-> FALSE]]
    /\ UNCHANGED <<requests, loading, gets>>
    /\ UNCHANGED serverVars

\* The server resolves the request the PUT names and answers.
ServePut(p) ==
    /\ puts[p].pc = "sent"
    /\ Resolve(ShownGroup, puts[p].requestId, puts[p].action)
    /\ puts' = [puts EXCEPT ![p].pc = "served", ![p].action = "", ![p].ok = (put'.status = 200)]
    /\ UNCHANGED <<requests, loading, gets>>

\* The fetch of the PUT throws: the request never reaches the server.
PutThrows(p) ==
    /\ puts[p].pc = "sent"
    /\ puts' = [puts EXCEPT ![p].pc = "served", ![p].action = "", ![p].ok = FALSE]
    /\ UNCHANGED <<requests, loading, gets>>
    /\ UNCHANGED serverVars

\* Lines 59-71: the response is delivered; after an OK one the entry is filtered
\* out of the current list, otherwise only a toast is shown.
HandleRequestActionDone(p) ==
    /\ puts[p].pc = "served"
    /\ requests' = IF Removes(puts[p].ok)
                   THEN Without(requests, puts[p].requestId)
                   ELSE requests
    /\ puts' = [puts EXCEPT ![p].pc = "done"]
    /\ UNCHANGED <<loading, gets>>
    /\ UNCHANGED serverVars

ManagerNext ==
    \/ \E f \in Fetches : FetchRequests(f) /\ UNCHANGED libraryVars
    \/ \E f \in Fetches : ServeGet(f) /\ UNCHANGED libraryVars
    \/ \E f \in Fetches : FetchRequestsDone(f) /\ UNCHANGED libraryVars
    \/ \E p \in Clicks, requestId \in 1..MaxRequests, action \in {"accept", "decline"} :
         HandleRequestAction(p, requestId, action) /\ UNCHANGED libraryVars
    \/ \E p \in Clicks : ServePut(p) /\ UNCHANGED libraryVars
    \/ \E p \in Clicks : PutThrows(p) /\ UNCHANGED libraryVars
    \/ \E p \in Clicks : HandleRequestActionDone(p) /\ UNCHANGED libraryVars

ManagerSpec == ManagerInit /\ [][ManagerNext]_vars

\* ---------------------------------------------------------------- LibraryPage
\* The join-request store plays no part in the library page; it stays as the
\* manager found it.
LibraryInit ==
    /\ ManagerMounted
    /\ LibraryMounted
    /\ members = ManagerStore.members
    /\ rows = ManagerStore.rows
    /\ nextId = ManagerStore.nextId
    /\ call = [c \in Calls |-> IdleCall]
    /\ hist = [c \in Calls |-> IdleHist]
    /\ put = NoPut

\* The page shows its filters and its books: line 325 renders only the loading
\* text while loading is true.
Rendered == ~booksLoading

\* Lines 154-168, the call of fetchBooks(statusFilter, archivedFilter) up to its
\* await: setLoading(true), setError(null), the GET of the url is sent.
FetchBooks(f, statusFilter, archivedFilter) ==
    /\ bookGets[f].pc = "idle"
    /\ \A e \in BookFetches : e < f => bookGets[e].pc # "idle"
    /\ booksLoading' = TRUE
    /\ error' = NoError
    /\ bookGets' = [bookGets EXCEPT ![f].pc = "sent", ![f].url = Url(statusFilter, archivedFilter)]

\* Lines 309-316 at mount: the effect fetches with the initial filters.
UseEffect(f) ==
    /\ \A e \in BookFetches : bookGets[e].pc = "idle"
    /\ FetchBooks(f, filterStatus, QueryValue(filterArchiveStatus))
    /\ UNCHANGED <<books, filterStatus, filterArchiveStatus, handlers, revision>>
    /\ UNCHANGED <<serverVars, managerVars>>

\* Line 343: the status Select calls setFilterStatus; the effect of lines 309-316
\* then fetches with the new selection.
SetFilterStatus(f, name) ==
    /\ Rendered
    /\ name # filterStatus
    /\ filterStatus' = name
    /\ FetchBooks(f, name, QueryValue(filterArchiveStatus))
    /\ UNCHANGED <<books, filterArchiveStatus, handlers, revision>>
    /\ UNCHANGED <<serverVars, managerVars>>

\* Line 359: the archive Select calls setFilterArchiveStatus; the effect then
\* fetches with the new selection.
SetFilterArchiveStatus(f, name) ==
    /\ Rendered
    /\ name # filterArchiveStatus
    /\ filterArchiveStatus' = name
    /\ FetchBooks(f, filterStatus, QueryValue(name))
    /\ UNCHANGED <<books, filterStatus, handlers, revision>>
    /\ UNCHANGED <<serverVars, managerVars>>

\* GET /api/library answers with the books its query selects from the library
\* as it is now, or with an error.
ServeBooks(f) ==
    /\ bookGets[f].pc = "sent"
    /\ \E ok \in BOOLEAN :
         bookGets' = [bookGets EXCEPT ![f].pc = "served", ![f].ok = ok,
                        ![f].data = IF ok THEN [url |-> bookGets[f].url, revision |-> revision]
                                    ELSE NoBooks]
    /\ UNCHANGED <<books, booksLoading, error, filterStatus, filterArchiveStatus,
                   handlers, revision>>
    /\ UNCHANGED <<serverVars, managerVars>>

\* Lines 168-182: the response is delivered; setBooks(data) if it is OK,
\* setError otherwise, setLoading(false) in both cases.
FetchBooksDone(f) ==
    /\ bookGets[f].pc = "served"
    /\ books' = IF bookGets[f].ok THEN bookGets[f].data ELSE books
    /\ error' = IF bookGets[f].ok THEN error ELSE "HTTP error"
    /\ booksLoading' = FALSE
    /\ bookGets' = [bookGets EXCEPT ![f].pc = "done"]
    /\ UNCHANGED <<filterStatus, filterArchiveStatus, handlers, revision>>
    /\ UNCHANGED <<serverVars, managerVars>>

\* handleDeleteBook (200-209), handleArchiveBook (232-247) or handleStatusChange
\* (271-279) is called on a displayed book and sends its request; the closure
\* holds the filters of the render it was made in.
Handle(h, handler) ==
    /\ handlers[h].pc = "idle"
    /\ \A o \in Handlers : o < h => handlers[o].pc # "idle"
    /\ Rendered
    /\ error = NoError
    /\ books # NoBooks
    /\ handlers' = [handlers EXCEPT ![h] = [pc |-> "sent", handler |-> handler,
                                            filterStatus |-> filterStatus,
                                            filterArchiveStatus |-> filterArchiveStatus,
                                            ok |-> FALSE]]
    /\ UNCHANGED <<books, booksLoading, error, filterStatus, filterArchiveStatus,
                   bookGets, revision>>
    /\ UNCHANGED <<serverVars, managerVars>>

\* The server applies the DELETE, PUT or PATCH to the library, or answers with
\* an error and changes nothing.
ServeHandler(h) ==
    /\ handlers[h].pc = "sent"
    /\ \E ok \in BOOLEAN :
         /\ handlers' = [handlers EXCEPT ![h].pc = "served", ![h].ok = ok]
         /\ revision' = IF ok THEN revision + 1 ELSE revision
    /\ UNCHANGED <<books, booksLoading, error, filterStatus, filterArchiveStatus, bookGets>>
    /\ UNCHANGED <<serverVars, managerVars>>

\* Lines 209-221, 246-260, 279-299: after an OK response the handler calls
\* fetchBooks with the filters of its closure.
HandleReloads(h, f) ==
    /\ handlers[h].pc = "served"
    /\ handlers[h].ok
    /\ FetchBooks(f, handlers[h].filterStatus, QueryValue(handlers[h].filterArchiveStatus))
    /\ handlers' = [handlers EXCEPT ![h].pc = "done"]
    /\ UNCHANGED <<books, filterStatus, filterArchiveStatus, revision>>
    /\ UNCHANGED <<serverVars, managerVars>>

\* Lines 209-212 and 223-229 (and their like): a response that is not OK throws
\* and the catch shows a toast.
HandleFails(h) ==
    /\ handlers[h].pc = "served"
    /\ ~handlers[h].ok
    /\ handlers' = [handlers EXCEPT ![h].pc = "done"]
    /\ UNCHANGED <<books, booksLoading, error, filterStatus, filterArchiveStatus,
                   bookGets, revision>>
    /\ UNCHANGED <<serverVars, managerVars>>

LibraryNext ==
    \/ \E f \in BookFetches : UseEffect(f)
    \/ \E f \in BookFetches, name \in ReadingStatuses : SetFilterStatus(f, name)
    \/ \E f \in BookFetches, name \in ArchiveStatuses : SetFilterArchiveStatus(f, name)
    \/ \E f \in BookFetches : ServeBooks(f)
    \/ \E f \in BookFetches : FetchBooksDone(f)
    \/ \E h \in Handlers, handler \in {"handleDeleteBook", "handleArchiveBook", "handleStatusChange"} :
         Handle(h, handler)
    \/ \E h \in Handlers : ServeHandler(h)
    \/ \E h \in Handlers, f \in BookFetches : HandleReloads(h, f)
    \/ \E h \in Handlers : HandleFails(h)

LibrarySpec == LibraryInit /\ [][LibraryNext]_vars

\* ---------------------------------------------------------------- specification
Next ==
    \/ \E c \in Calls, in \in StartInputs : Start(c, in[1], in[2]) /\ UNCHANGED <<managerVars, libraryVars>>
    \/ \E c \in Calls : FindGroupStep(c) /\ UNCHANGED <<managerVars, libraryVars>>
    \/ \E c \in Calls : FindMembershipStep(c) /\ UNCHANGED <<managerVars, libraryVars>>
    \/ \E c \in Calls : FindRequestStep(c) /\ UNCHANGED <<managerVars, libraryVars>>
    \/ \E c \in Calls : UpsertStep(c) /\ UNCHANGED <<managerVars, libraryVars>>
    \/ \E c \in Calls : NotifyStep(c) /\ UNCHANGED <<managerVars, libraryVars>>
    \/ \E c \in Calls : StoreThrows(c) /\ UNCHANGED <<managerVars, libraryVars>>
    \/ \E g \in Groups, r \in 1..nextId, action \in {"accept", "decline"} :
         Resolve(g, r, action) /\ UNCHANGED <<managerVars, libraryVars>>

Spec == Init /\ [][Next]_vars

\* ---------------------------------------------------------------- vocabulary of the claims
MsgMember == "You are already a member of this group."
MsgPending == "You have already requested to join this group."
MsgSent == "Join request sent successfully."
MsgNoGroup == "Group not found."

Done(c) == call[c].pc = "done"

Responded(c, st, msg) == Done(c) /\ call[c].status = st /\ call[c].message = msg

\* Call c is a create(g, u).
Create(c, g, u) == call[c].pc # "idle" /\ call[c].groupId = g /\ call[c].user = u

IsMember(g, u) == FindMembership(members, g, u) # NULL

\* Exactly one join request exists for (g, u), and it is PENDING.
OnePending(g, u) ==
    /\ Cardinality(RowsOf(rows, g, u)) = 1
    /\ \A r \in RowsOf(rows, g, u) : r.status = "PENDING"

\* c1 and c2 are two create(g, u), each made while no other call is in flight,
\* c2 the first create(g, u) made after c1 has returned, with no resolve of the
\* request since c1 started, and no store failure.
TwoCreatesInARow(c1, c2, g, u) ==
    /\ c1 < c2
    /\ Create(c1, g, u) /\ Create(c2, g, u)
    /\ Done(c1) /\ Done(c2)
    /\ hist[c1].alone /\ hist[c2].alone
    /\ \A d \in Calls : (c1 < d /\ d < c2) => ~Create(d, g, u)
    /\ ~hist[c1].resolved /\ ~hist[c2].resolved
    /\ call[c1].status # 500 /\ call[c2].status # 500

\* ---------------------------------------------------------------- C1
\* C1, as stated: for every group G and user U that is not a member of G, of
\* two create(G,U) made one after the other the first returns 201, the second
\* 400 (already pending), and exactly one join request exists for (G,U), PENDING.
C1_Original ==
    \A g \in Groups, u \in Users, c1 \in Calls, c2 \in Calls :
        (TwoCreatesInARow(c1, c2, g, u) /\ ~hist[c1].startMember)
        => /\ Responded(c1, 201, MsgSent)
           /\ Responded(c2, 400, MsgPending)
           /\ OnePending(g, u)

\* C1, amended: the same for every user U that is not a member of G and has no
\* PENDING join request for G when the first call starts.
C1_TwoCreates ==
    \A g \in Groups, u \in Users, c1 \in Calls, c2 \in Calls :
        (/\ TwoCreatesInARow(c1, c2, g, u)
         /\ ~hist[c1].startMember
         /\ hist[c1].startStatus # "PENDING")
        => /\ Responded(c1, 201, MsgSent)
           /\ Responded(c2, 400, MsgPending)
           /\ OnePending(g, u)

\* Two create("g1","u1") in a row, from a store without a request of u1: 201, then 400.
C1_Witness ==
    /\ TwoCreatesInARow(1, 2, "g1", "u1")
    /\ hist[1].startStatus = "NONE" /\ ~hist[1].startMember
    /\ Responded(1, 201, MsgSent)
    /\ Responded(2, 400, MsgPending)
    /\ OnePending("g1", "u1")

\* ---------------------------------------------------------------- C2
\* C2: a create(G,U) made while Membership(G,U) exists answers 400 (already
\* member), whatever the join request of (G,U) is, unless the store fails.
C2_MemberRejected ==
    \A g \in Groups, u \in Users, c \in Calls :
        (Create(c, g, u) /\ Done(c) /\ hist[c].startMember /\ call[c].status # 500)
        => Responded(c, 400, MsgMember)

\* An admin without any request and a member whose request is ACCEPTED are both
\* turned away.
C2_Witness ==
    \E c \in Calls, d \in Calls :
        /\ Responded(c, 400, MsgMember) /\ hist[c].startMember
        /\ hist[c].startStatus = "NONE"
        /\ Responded(d, 400, MsgMember) /\ hist[d].startMember
        /\ hist[d].startStatus = "ACCEPTED"

\* ---------------------------------------------------------------- C3
\* C3: a create(G,U) made while the request of (G,U) is DECLINED and U is no
\* member, with no other create writing and no resolve meanwhile, returns 201
\* and leaves the one row of (G,U), with the id it had, PENDING.
C3_ReopenDeclined ==
    \A g \in Groups, u \in Users, c \in Calls :
        (/\ Create(c, g, u) /\ Done(c)
         /\ hist[c].startStatus = "DECLINED" /\ ~hist[c].startMember
         /\ hist[c].alone /\ ~hist[c].resolved
         /\ \A d \in Calls : (d > c /\ Create(d, g, u)) => ~hist[d].wrote
         /\ call[c].status # 500)
        => /\ Responded(c, 201, MsgSent)
           /\ RowsOf(rows, g, u) =
                {[id |-> hist[c].startId, groupId |-> g, userId |-> u, status |-> "PENDING"]}

\* A request that a resolve declined is reopened by the next create.
C3_Witness ==
    \E c \in Calls :
        /\ Create(c, "g1", "u1") /\ Responded(c, 201, MsgSent)
        /\ hist[c].startStatus = "DECLINED" /\ ~hist[c].startMember
        /\ hist[c].alone /\ ~hist[c].resolved
        /\ put.status = 200
        /\ RowsOf(rows, "g1", "u1") =
             {[id |-> hist[c].startId, groupId |-> "g1", userId |-> "u1", status |-> "PENDING"]}

\* ---------------------------------------------------------------- C4
\* C4: in every reachable state, no (group, user) has both a Membership and a
\* PENDING join request.
C4_NoMemberWithPending ==
    \A g \in Groups, u \in Users :
        ~(IsMember(g, u) /\ StatusOf(rows, g, u) = "PENDING")

\* ---------------------------------------------------------------- C5
\* C5: whatever the interleaving of the reads and upserts of the create calls,
\* a (group, user) has at most one join request, hence at most one PENDING one.
C5_AtMostOneRow ==
    \A g \in Groups, u \in Users :
        /\ Cardinality(RowsOf(rows, g, u)) <= 1
        /\ Cardinality({r \in RowsOf(rows, g, u) : r.status = "PENDING"}) <= 1

\* Two create("g1","u1") both read that no request exists, then both upsert.
C5_Witness ==
    /\ Create(1, "g1", "u1") /\ Create(2, "g1", "u1")
    /\ hist[1].startStatus = "NONE" /\ hist[2].startStatus = "NONE"
    /\ hist[1].wrote /\ hist[2].wrote
    /\ ~hist[1].resolved /\ ~hist[2].resolved
    /\ Cardinality(RowsOf(rows, "g1", "u1")) = 1

\* ---------------------------------------------------------------- C6
\* C6: once the join request of (G,U) is ACCEPTED no step changes its status,
\* and a create(G,U) made while it is ACCEPTED answers 400 (already member).
C6_AcceptedIsTerminal ==
    [][\A g \in Groups, u \in Users :
          /\ StatusOf(rows, g, u) = "ACCEPTED" => StatusOf(rows', g, u) = "ACCEPTED"
          /\ \A c \in Calls :
               (Create(c, g, u)' /\ Done(c)' /\ hist'[c].startStatus = "ACCEPTED"
                /\ call'[c].status # 500)
               => Responded(c, 400, MsgMember)']_vars

\* The part of C6 about the calls made after the accept.
C6_CreateAfterAccept ==
    \A g \in Groups, u \in Users, c \in Calls :
        (Create(c, g, u) /\ Done(c) /\ hist[c].startStatus = "ACCEPTED"
         /\ call[c].status # 500)
        => Responded(c, 400, MsgMember)

\* ---------------------------------------------------------------- C7
\* The admins of g that have an email, in the order of the loop.
EmailedAdmins(g) == SelectSeq(InitialAdmins(g), LAMBDA a : Email(a) # NoEmail)

\* C7: a create that passed every check and upserted has attempted a
\* notification for every admin with an email, whichever of them failed, has
\* returned 201, and has left the request PENDING (until a resolve).
C7_NotifyEveryAdmin ==
    \A c \in Calls :
        (Done(c) /\ hist[c].wrote)
        => /\ call[c].attempted = EmailedAdmins(call[c].groupId)
           /\ call[c].failed \subseteq Range(call[c].attempted)
           /\ Responded(c, 201, MsgSent)
           /\ ~hist[c].resolved => OnePending(call[c].groupId, call[c].user)

\* The notification of a1, the first admin, failed; a2 was still notified.
C7_Witness ==
    \E c \in Calls :
        /\ Responded(c, 201, MsgSent)
        /\ call[c].failed = {"a1"}
        /\ call[c].attempted = <<"a1", "a2">>
        /\ ~hist[c].resolved /\ OnePending(call[c].groupId, call[c].user)

\* ---------------------------------------------------------------- C8
\* C8: a resolve(G, R, action) of a request that is missing in G, or is not
\* PENDING, answers NotFound and changes neither the requests nor the memberships.
C8_ResolveNeedsPending ==
    [][\A g \in Groups, r \in 1..nextId, action \in {"accept", "decline"} :
          (Resolve(g, r, action) /\ Resolvable(rows, g, r) = {})
          => (put'.status = 404 /\ UNCHANGED <<rows, members>>)]_vars

\* The last resolve named a request that was already ACCEPTED, and got NotFound.
C8_Witness ==
    /\ put.status = 404
    /\ \E q \in rows : /\ q.id = put.requestId /\ q.groupId = put.groupId
                       /\ q.status = "ACCEPTED"
    /\ IsMember("g1", "u1")

\* ---------------------------------------------------------------- C9
\* C9: in every reachable state, an ACCEPTED join request of (G,U) comes with a
\* Membership(G,U) of role MEMBER.
C9_AcceptedHasMembership ==
    \A g \in Groups, u \in Users :
        StatusOf(rows, g, u) = "ACCEPTED"
        => [group_id |-> g, user_id |-> u, role |-> "MEMBER"] \in members

\* A resolve has just accepted the request of u1, who started as an outsider.
C9_Witness ==
    /\ put.status = 200
    /\ \E q \in rows : /\ q.id = put.requestId /\ q.groupId = "g1" /\ q.userId = "u1"
                       /\ q.status = "ACCEPTED"
    /\ [group_id |-> "g1", user_id |-> "u1", role |-> "MEMBER"] \in members

\* ---------------------------------------------------------------- C10
\* C10: a create that returned a failure (401, 400, 404 or 500) has written
\* nothing: with no other writer, the request and the membership of its (group,
\* user) are as they were when it started; for a group that does not exist the
\* answer is 404 (or 500) and no row is inserted.
C10_FailureWritesNothing ==
    \A c \in Calls :
        (Done(c) /\ call[c].status # 201)
        => /\ call[c].status \in {401, 400, 404, 500}
           /\ ~hist[c].wrote
           /\ (~hist[c].resolved /\ \A d \in Calls \ {c} : ~hist[d].wrote)
              => /\ StatusOf(rows, call[c].groupId, call[c].user) = hist[c].startStatus
                 /\ FindRequest(rows, call[c].groupId, call[c].user).id = hist[c].startId
                 /\ IsMember(call[c].groupId, call[c].user) = hist[c].startMember
           /\ (GroupNotFound(call[c].groupId) /\ ~Unauthorized(call[c].user)
               /\ ~MissingGroupId(call[c].groupId))
              => /\ call[c].status \in {404, 500}
                 /\ RowsOf(rows, call[c].groupId, call[c].user) = {}

\* A create for the missing group got 404, and a create whose store call threw
\* got 500; the DECLINED request of u1 is as it was.
C10_Witness ==
    \E c \in Calls, d \in Calls :
        /\ Responded(c, 404, MsgNoGroup) /\ call[c].groupId = "g0"
        /\ Create(d, "g1", "u1") /\ Done(d) /\ call[d].status = 500
        /\ hist[d].startStatus = "DECLINED"
        /\ StatusOf(rows, "g1", "u1") = "DECLINED"
        /\ RowsOf(rows, "g0", "u1") = {}

\* ---------------------------------------------------------------- C12
\* The number of notifications the create calls named in `cs` attempted for admin a.
RECURSIVE AttemptsFor(_, _)
AttemptsFor(cs, a) ==
    IF cs = {} THEN 0
    ELSE LET c == CHOOSE x \in cs : TRUE IN
         (IF a \in Range(call[c].attempted) THEN 1 ELSE 0) + AttemptsFor(cs \ {c}, a)

\* The create(g, u) calls that have run since the request last entered PENDING:
\* those no resolve of (g, u) has followed.
SincePending(g, u) == {c \in Calls : Create(c, g, u) /\ ~hist[c].resolved}

\* C12: for each time the join request of (G,U) enters PENDING at most one create
\* call returns 201 and each admin gets at most one notification attempt, however
\* the calls interleave; a create that returns an error attempts no notification.
C12_OneSuccessPerPending ==
    /\ \A g \in Groups, u \in Users :
         /\ Cardinality({c \in SincePending(g, u) : Responded(c, 201, MsgSent)}) <= 1
         /\ \A a \in Range(InitialAdmins(g)) : AttemptsFor(SincePending(g, u), a) <= 1
    /\ \A c \in Calls : (Done(c) /\ call[c].status # 201) => call[c].attempted = <<>>

\* The part of C12 about the calls that return an error.
C12_ErrorSendsNothing ==
    \A c \in Calls : (Done(c) /\ call[c].status # 201) => call[c].attempted = <<>>

\* ---------------------------------------------------------------- C11
\* The handleRequestAction call of click p takes a step: the PUT is sent, or its
\* response is handled.
Sends(p) == puts[p].pc = "idle" /\ puts'[p].pc = "sent"

Handles(p) == puts[p].pc = "served" /\ puts'[p].pc = "done"

\* C11: a handleRequestAction whose PUT response is not OK, or whose fetch
\* throws, leaves the displayed list unchanged; when the response is OK it
\* removes exactly the entry with that requestId and keeps every other entry in
\* its order; in no case does it start a fetch of the list or touch loading.
C11_RemovesOnlyOnOk ==
    [][\A p \in Clicks :
         /\ Sends(p) => requests' = requests /\ gets' = gets /\ loading' = loading
         /\ Handles(p) =>
              /\ gets' = gets /\ loading' = loading
              /\ ~puts[p].ok => requests' = requests
              /\ puts[p].ok =>
                   /\ Range(requests') = Range(requests) \ {puts[p].requestId}
                   /\ requests' = SelectSeq(requests, LAMBDA x : x \in Range(requests'))]_vars

\* The three requests were displayed, a click on request 2 got an OK response
\* and entry 2 was taken from between the other two.
C11_Witness ==
    /\ requests = <<1, 3>>
    /\ \E p \in Clicks : puts[p].pc = "done" /\ puts[p].ok /\ puts[p].requestId = 2
    /\ \A f \in Fetches : gets[f].pc \in {"idle", "done"}
    /\ Cardinality({f \in Fetches : gets[f].pc = "done"}) = 1

\* ---------------------------------------------------------------- C13
\* C13: once a resolve of request R has succeeded and R was removed from the
\* displayed list, R is never displayed again, also when a fetchRequests call
\* that started before the resolve delivers its response after it.
C13_ResolvedStaysRemoved ==
    \A p \in Clicks :
        (puts[p].pc = "done" /\ puts[p].ok) => puts[p].requestId \notin Range(requests)

\* ---------------------------------------------------------------- C14
\* C14: when no fetchBooks call is in flight, the displayed books are the
\* response to the request made with the selected status and archive filters; a
\* response to an earlier selection never replaces the books of the latest one.
C14_BooksOfSelection ==
    ( /\ \A f \in BookFetches : bookGets[f].pc \in {"idle", "done"}
      /\ Rendered
      /\ error = NoError
      /\ books # NoBooks )
    => books.url = Url(filterStatus, QueryValue(filterArchiveStatus))

====
